---------------------------- MODULE Spec2Model ----------------------------
(***************************************************************************)
(* Chunked key-value persistence layer of the marketing dashboard:         *)
(* functions/api/storage.ts (needsChunking, chunkValue, reconstructValue   *)
(* and the get / put / delete / list cases of onRequest).                  *)
(*                                                                         *)
(* Strings are sequences of Unicode scalar values, byte arrays are         *)
(* sequences of 0..255; TextEncoder / TextDecoder are modelled by the      *)
(* UTF-8 encoding and the WHATWG UTF-8 decoder (U+FFFD for every invalid   *)
(* sequence, a leading byte order mark dropped).  Backing-store keys are    *)
(* strings, built by concatenation as the template literals build them.    *)
(***************************************************************************)
EXTENDS Integers, Sequences, FiniteSets, TLC

(* ------------------------------ bounds --------------------------------- *)

\* The chunking threshold of storage.ts line 11 (20 * 1024 * 1024 there),
\* scaled down so that values of a few bytes are split.  It stays larger
\* than the longest run of continuation bytes of valid UTF-8 (3), as the
\* source's threshold does.
MAX_CHUNK_SIZE == 4

\* Longest string (in code points) handed to the codec on its own.
MaxLen == 3

(* --------------------------- UTF-8 codec ------------------------------- *)

REPLACEMENT == 65533

BOM == 65279

\* encoder.encode of one code point.
EncodeCodePoint(cp) ==
    IF cp < 128 THEN <<cp>>
    ELSE IF cp < 2048 THEN <<192 + (cp \div 64), 128 + (cp % 64)>>
    ELSE IF cp < 65536
         THEN <<224 + (cp \div 4096), 128 + ((cp \div 64) % 64), 128 + (cp % 64)>>
    ELSE <<240 + (cp \div 262144), 128 + ((cp \div 4096) % 64),
           128 + ((cp \div 64) % 64), 128 + (cp % 64)>>

\* encoder.encode(value): the UTF-8 bytes of a string.
RECURSIVE Utf8Encode(_)
Utf8Encode(s) ==
    IF s = <<>> THEN <<>> ELSE EncodeCodePoint(Head(s)) \o Utf8Encode(Tail(s))

\* The WHATWG UTF-8 decoder from byte i of b on: cp is the code point being
\* assembled, needed the continuation bytes it still lacks, lo..hi the range
\* the next byte must lie in.
RECURSIVE DecodeFrom(_, _, _, _, _, _)
DecodeFrom(b, i, cp, needed, lo, hi) ==
    IF i > Len(b) THEN (IF needed # 0 THEN <<REPLACEMENT>> ELSE <<>>)
    ELSE LET byte == b[i] IN
      IF needed = 0 THEN
        IF byte < 128 THEN <<byte>> \o DecodeFrom(b, i + 1, 0, 0, 128, 191)
        ELSE IF byte >= 194 /\ byte <= 223
             THEN DecodeFrom(b, i + 1, byte - 192, 1, 128, 191)
        ELSE IF byte >= 224 /\ byte <= 239
             THEN DecodeFrom(b, i + 1, byte - 224, 2,
                             IF byte = 224 THEN 160 ELSE 128,
                             IF byte = 237 THEN 159 ELSE 191)
        ELSE IF byte >= 240 /\ byte <= 244
             THEN DecodeFrom(b, i + 1, byte - 240, 3,
                             IF byte = 240 THEN 144 ELSE 128,
                             IF byte = 244 THEN 143 ELSE 191)
        ELSE <<REPLACEMENT>> \o DecodeFrom(b, i + 1, 0, 0, 128, 191)
      ELSE
        IF byte < lo \/ byte > hi
        THEN <<REPLACEMENT>> \o DecodeFrom(b, i, 0, 0, 128, 191)
        ELSE IF needed = 1
             THEN <<cp * 64 + (byte - 128)>> \o DecodeFrom(b, i + 1, 0, 0, 128, 191)
             ELSE DecodeFrom(b, i + 1, cp * 64 + (byte - 128), needed - 1, 128, 191)

\* decoder.decode(bytes) of a TextDecoder built with no options: non-fatal,
\* and a byte order mark at the start of the input is not part of the output.
Utf8Decode(b) ==
    LET s == DecodeFrom(b, 1, 0, 0, 128, 191)
    IN IF s # <<>> /\ Head(s) = BOM THEN Tail(s) ELSE s

ByteLength(s) == Len(Utf8Encode(s))

\* (byte & 0xC0) === 0x80
IsContinuation(byte) == byte \div 64 = 2

Min(a, b) == IF a < b THEN a ELSE b

\* bytes.slice(from, to), both 0-based, to exclusive.
Slice(b, from, to) == SubSeq(b, from + 1, to)

\* needsChunking(value)
\* Mutant of needsChunking: a value of exactly MAX_CHUNK_SIZE bytes is chunked.
needsChunking_AtThreshold(value) == ByteLength(value) >= MAX_CHUNK_SIZE

needsChunking(value) == ByteLength(value) > MAX_CHUNK_SIZE

\* The while loop of chunkValue: chunkEnd walked back over continuation bytes.
RECURSIVE BackOff(_, _, _)
BackOff(bytes, i, chunkEnd) ==
    IF chunkEnd > i /\ IsContinuation(bytes[chunkEnd + 1])
    THEN BackOff(bytes, i, chunkEnd - 1)
    ELSE chunkEnd

\* One window of chunkValue's for loop: where the chunk that starts at i ends.
ChunkEnd(bytes, i) ==
    LET chunkEnd == Min(i + MAX_CHUNK_SIZE, Len(bytes))
    IN IF chunkEnd < Len(bytes) THEN BackOff(bytes, i, chunkEnd) ELSE chunkEnd

\* Mutant of ChunkLoop: the loop runs while i <= bytes.length, which adds an
\* empty chunk after an input of a whole number of windows.
RECURSIVE ChunkLoop_TrailingEmpty(_, _)
ChunkLoop_TrailingEmpty(bytes, i) ==
    IF i <= Len(bytes)
    THEN <<Utf8Decode(Slice(bytes, i, ChunkEnd(bytes, i)))>>
         \o ChunkLoop_TrailingEmpty(bytes, i + MAX_CHUNK_SIZE)
    ELSE <<>>

\* The for loop of chunkValue from window start i on (i += MAX_CHUNK_SIZE).
RECURSIVE ChunkLoop(_, _)
ChunkLoop(bytes, i) ==
    IF i < Len(bytes)
    THEN <<Utf8Decode(Slice(bytes, i, ChunkEnd(bytes, i)))>>
         \o ChunkLoop(bytes, i + MAX_CHUNK_SIZE)
    ELSE <<>>

\* chunkValue(value)
\* The byte ranges <<i, chunkEnd>> the for loop slices, from window start i on.
RECURSIVE ChunkSpans(_, _)
ChunkSpans(bytes, i) ==
    IF i < Len(bytes)
    THEN <<(<<i, ChunkEnd(bytes, i)>>)>> \o ChunkSpans(bytes, i + MAX_CHUNK_SIZE)
    ELSE <<>>

chunkValue(value) == ChunkLoop(Utf8Encode(value), 0)

\* chunks.join('')
RECURSIVE Join(_)
Join(chunks) == IF chunks = <<>> THEN <<>> ELSE Head(chunks) \o Join(Tail(chunks))


(* ------------------------- JSON and JS values -------------------------- *)

\* JavaScript values that travel through the handler: null, a string, or an
\* object with a numeric "chunks" property.
Null == [t |-> "null", s |-> <<>>, chunks |-> 0]

Str(s) == [t |-> "str", s |-> s, chunks |-> 0]

ChunksObject(n) == [t |-> "obj", s |-> <<>>, chunks |-> n]

\* The value of a request that carries no value field (value?: any).
Undefined == [t |-> "undefined", s |-> <<>>, chunks |-> 0]

\* A value JSON.stringify throws on.
Unserializable == [t |-> "throws", s |-> <<>>, chunks |-> 0]

\* JSON.stringify yields a JSON text for the value.
IsSerializable(v) == v.t \notin {"undefined", "throws"}

\* Decimal digits of a natural number, as JSON.stringify prints it.
RECURSIVE NatText(_)
NatText(n) == IF n < 10 THEN <<48 + n>> ELSE NatText(n \div 10) \o <<48 + (n % 10)>>

\* The text {"chunks": up to the number.
ChunksPrefix == <<123, 34, 99, 104, 117, 110, 107, 115, 34, 58>>

\* JSON.stringify(value): a string in double quotes (the strings of the model
\* hold no character that needs escaping), or {"chunks":N}.
JsonStringify(v) ==
    IF v.t = "str" THEN <<34>> \o v.s \o <<34>>
    ELSE IF v.t = "obj" THEN ChunksPrefix \o NatText(v.chunks) \o <<125>>
    ELSE <<110, 117, 108, 108>>

IsDigits(t) == t # <<>> /\ \A j \in 1..Len(t) : t[j] >= 48 /\ t[j] <= 57

RECURSIVE DigitsValue(_)
DigitsValue(t) ==
    IF t = <<>> THEN 0 ELSE 10 * DigitsValue(SubSeq(t, 1, Len(t) - 1)) + (t[Len(t)] - 48)

\* JSON.parse(text): [ok |-> FALSE] stands for the SyntaxError it throws.
JsonParse(text) ==
    LET n  == Len(text)
        pl == Len(ChunksPrefix)
    IN IF n >= 2 /\ text[1] = 34 /\ text[n] = 34
          /\ \A j \in 2..(n - 1) : text[j] # 34 /\ text[j] # 92 /\ text[j] >= 32
       THEN [ok |-> TRUE, v |-> Str(SubSeq(text, 2, n - 1))]
       ELSE IF n >= pl + 2 /\ SubSeq(text, 1, pl) = ChunksPrefix /\ text[n] = 125
               /\ IsDigits(SubSeq(text, pl + 1, n - 1))
               /\ (text[pl + 1] # 48 \/ n = pl + 2)
       THEN [ok |-> TRUE, v |-> ChunksObject(DigitsValue(SubSeq(text, pl + 1, n - 1)))]
       ELSE IF text = <<110, 117, 108, 108>>
       THEN [ok |-> TRUE, v |-> Null]
       ELSE [ok |-> FALSE, v |-> Null]

(* --------------------------- backing store ----------------------------- *)

VARIABLES
    kv,        \* env.STORAGE_KV: physical key -> stored text
    req,       \* per in-flight request: position and locals of onRequest
    last,      \* history: per full key, the last put / delete that ended
    observed,  \* history: <<situation, response>> of the gets that ended
    cin,       \* the codec run on its own: input string
    cout,      \* ... and the chunks chunkValue returned for it
    cstage,    \* "off" | "in" | "out"
    calls,     \* history: per request, the backing-store calls it has issued
    overlap    \* history: per request, whether another request on its key
               \* was in flight at some time during it; under "any",
               \* whether two requests on one key ever were in flight together

vars == <<kv, req, last, observed, cin, cout, cstage, calls, overlap>>

codecVars == <<cin, cout, cstage>>

CHUNK_METADATA_KEY == "__chunks__"

\* `${fullKey}${CHUNK_METADATA_KEY}`
MetaKey(fullKey) == fullKey \o CHUNK_METADATA_KEY

\* `${fullKey}__chunk_${i}`
ChunkKey(fullKey, i) == fullKey \o "__chunk_" \o ToString(i)

\* Largest chunk index the environment looks at.
MaxIndex == 3

\* The physical keys of the layouts of a full key.
DerivedKeys(fullKey) ==
    {fullKey, MetaKey(fullKey)} \cup {ChunkKey(fullKey, j) : j \in 0..MaxIndex}

\* Mutant of FullKey: the tab is prepended without the separator.
FullKey_NoSeparator(tab, key) == IF tab # "" THEN tab \o key ELSE key

\* tab ? `${tab}-${key}` : key
FullKey(tab, key) == IF tab # "" THEN tab \o "-" \o key ELSE key

Has(store, k) == k \in DOMAIN store

\* tab ? `${tab}-` : '' (line 225)
ListPrefix(tab) == IF tab # "" THEN tab \o "-" ELSE ""

StartsWith(k, prefix) == Len(k) >= Len(prefix) /\ SubSeq(k, 1, Len(prefix)) = prefix

\* STORAGE_KV.get(key, 'text'): the text, or null
KvGetText(store, k) == IF Has(store, k) THEN [null |-> FALSE, text |-> store[k]]
                       ELSE [null |-> TRUE, text |-> <<>>]

\* STORAGE_KV.get(key, 'json'): null, the parsed value, or a thrown SyntaxError
KvGetJson(store, k) == IF Has(store, k) THEN JsonParse(store[k])
                       ELSE [ok |-> TRUE, v |-> Null]

\* STORAGE_KV.put(key, text)
KvPut(store, k, text) == [x \in DOMAIN store \cup {k} |-> IF x = k THEN text ELSE store[x]]

\* STORAGE_KV.delete(key): no error on a missing key
KvDelete(store, k) == [x \in DOMAIN store \ {k} |-> store[x]]

\* metadata && typeof metadata === 'object' && 'chunks' in metadata
IsChunkMetadata(v) == v.t = "obj"

(* ------------------------------ requests ------------------------------- *)

Procs == {"p1", "p2", "p3"}

\* Responses: { success: true, data }, { success: true } and the 500 of the
\* outer catch, { success: false, error }.
\* keys holds the key names of a list result.
DataResponse(v) == [success |-> TRUE, hasData |-> TRUE, data |-> v, keys |-> {}]

OkResponse == [success |-> TRUE, hasData |-> FALSE, data |-> Null, keys |-> {}]

ErrorResponse == [success |-> FALSE, hasData |-> FALSE, data |-> Null, keys |-> {}]

ListResponse(names) == [success |-> TRUE, hasData |-> TRUE, data |-> Null, keys |-> names]

Idle == [pc |-> "idle", op |-> "none", tab |-> "", key |-> "",
         fullKey |-> "", value |-> Null,
         i |-> 0, n |-> 0, chunks |-> <<>>, acc |-> <<>>,
         prePlain |-> FALSE, preN |-> 0, resp |-> ErrorResponse, sit |-> "none"]

Quiet(p) == req[p].pc \in {"idle", "done"}

AllQuiet == \A p \in Procs : Quiet(p)

\* The request issues the backing-store call op (get, put or delete) on key;
\* hit notes whether the key existed when the call was made.
Called(p, op, key) ==
    /\ calls' = [calls EXCEPT ![p] =
                   Append(@, [op |-> op, key |-> key, ok |-> TRUE,
                              hit |-> Has(kv, key)])]
    /\ UNCHANGED overlap

\* The backing-store call the request is waiting for, as its log of calls
\* notes it when the call throws.
PendingCall(p) ==
    LET pc == req[p].pc
        op == IF pc = "list_keys" THEN "list"
              ELSE IF pc \in {"get_meta", "get_chunk", "get_plain", "put_oldmeta",
                          "putp_oldmeta", "del_meta"} THEN "get"
              ELSE IF pc \in {"put_write", "put_meta", "putp_write"} THEN "put"
              ELSE "delete"
        key == IF pc = "list_keys" THEN ListPrefix(req[p].tab)
               ELSE IF pc \in {"get_meta", "put_oldmeta", "putp_oldmeta", "del_meta",
                           "put_meta", "putp_delmeta", "del_delmeta"}
               THEN MetaKey(req[p].fullKey)
               ELSE IF pc \in {"get_chunk", "put_delold", "put_write", "putp_delold",
                                "del_chunks"}
               THEN ChunkKey(req[p].fullKey, req[p].i)
               ELSE req[p].fullKey
    IN [op |-> op, key |-> key, ok |-> FALSE, hit |-> FALSE]

\* The chunk count the well-formed metadata key of fullKey records, 0 if none.
MetaCount(store, fullKey) ==
    LET m == KvGetJson(store, MetaKey(fullKey))
    IN IF m.ok /\ IsChunkMetadata(m.v) THEN m.v.chunks ELSE 0

\* A request arrives: request.json() is destructured and fullKey computed.
Begin(p, op, tab, key, value, pc) ==
    /\ Quiet(p)
    /\ LET fk == FullKey(tab, key) IN
       /\ req' = [req EXCEPT ![p] =
                 [Idle EXCEPT !.pc = pc, !.op = op, !.tab = tab, !.key = key,
                              !.fullKey = fk, !.value = value,
                              !.prePlain = Has(kv, fk), !.preN = MetaCount(kv, fk)]]
       /\ calls' = [calls EXCEPT ![p] = <<>>]
       /\ LET meets == \E o \in Procs \ {p} : ~Quiet(o) /\ req[o].fullKey = fk IN
          overlap' = [q \in DOMAIN overlap |->
                        IF q = p THEN meets
                        ELSE IF q = "any" THEN overlap[q] \/ meets
                        ELSE overlap[q] \/ (~Quiet(q) /\ req[q].fullKey = fk)]
    /\ UNCHANGED <<kv, last, observed, codecVars>>

\* The situation a get that ends now is in: "integrity" when the metadata
\* key names a chunk that is missing, "absent" when neither the plain key nor
\* the metadata key exists.
Situation(store, fullKey) ==
    IF Has(store, MetaKey(fullKey))
    THEN IF \E j \in 0..(MetaCount(store, fullKey) - 1) : ~Has(store, ChunkKey(fullKey, j))
         THEN "integrity" ELSE "chunked"
    ELSE IF Has(store, fullKey) THEN "plain" ELSE "absent"

\* The request ends with response r (the locals are dropped; sit notes the
\* situation a get answered in).
Ended(p, r) ==
    [Idle EXCEPT !.pc = "done", !.op = req[p].op, !.tab = req[p].tab,
                 !.key = req[p].key, !.fullKey = req[p].fullKey,
                 !.value = req[p].value, !.prePlain = req[p].prePlain,
                 !.preN = req[p].preN, !.resp = r,
                 !.sit = IF req[p].op = "get" THEN Situation(kv, req[p].fullKey)
                         ELSE "none"]

\* History of the puts and deletes that ended, per full key.
NoOp == [op |-> "none", value |-> Null, prePlain |-> FALSE, preN |-> 0, ok |-> TRUE]

Record(p, ok) ==
    [last EXCEPT ![req[p].fullKey] =
        [op |-> req[p].op, value |-> req[p].value, prePlain |-> req[p].prePlain,
         preN |-> req[p].preN, ok |-> ok]]

(* ------------------------------- get ----------------------------------- *)

StartGet(p, tab, key) == Begin(p, "get", tab, key, Null, "get_meta")

\* Mutant of GetMeta: the metadata key is read and ignored, the plain key is
\* read whatever it says.
GetMeta_IgnoresMetadata(p) ==
    /\ req[p].pc = "get_meta"
    /\ req' = [req EXCEPT ![p].pc = "get_plain"]
    /\ Called(p, "get", MetaKey(req[p].fullKey))
    /\ UNCHANGED <<kv, last, observed, codecVars>>

\* line 90-95: the metadata key is read; a chunked value is reconstructed.
\* reconstructValue with numChunks <= 0 joins nothing: '' is falsy.
GetMeta(p) ==
    /\ req[p].pc = "get_meta"
    /\ LET metadata == KvGetJson(kv, MetaKey(req[p].fullKey)) IN
       IF ~metadata.ok
       THEN req' = [req EXCEPT ![p] = Ended(p, ErrorResponse)]
       ELSE IF IsChunkMetadata(metadata.v) /\ metadata.v.chunks > 0
       THEN req' = [req EXCEPT ![p].pc = "get_chunk", ![p].n = metadata.v.chunks,
                               ![p].i = 0, ![p].acc = <<>>]
       ELSE req' = [req EXCEPT ![p].pc = "get_plain"]
    /\ Called(p, "get", MetaKey(req[p].fullKey))
    /\ UNCHANGED <<kv, last, observed, codecVars>>

\* Mutant of AfterReconstruct: a reconstructed string that does not parse is
\* given up and the plain key is read instead.
AfterReconstruct_FallsBack(p, reconstructed) ==
    LET parsed == JsonParse(reconstructed) IN
    IF parsed.ok THEN Ended(p, DataResponse(parsed.v))
    ELSE [req[p] EXCEPT !.pc = "get_plain", !.acc = <<>>, !.i = 0, !.n = 0]

\* What get returns for the reconstructed string (lines 96-119); the falsy
\* cases (null, '') fall through to the plain read.
AfterReconstruct(p, reconstructed) ==
    LET parsed == JsonParse(reconstructed) IN
    IF parsed.ok THEN Ended(p, DataResponse(parsed.v))
    ELSE Ended(p, DataResponse(Str(reconstructed)))

Observe(p, r) ==
    IF Situation(kv, req[p].fullKey) \in {"integrity", "absent"} /\ AllQuiet'
    THEN observed \cup {<<Situation(kv, req[p].fullKey), r>>}
    ELSE observed

\* Mutant of reconstructStep: a missing chunk is skipped, the rest is joined.
reconstructStep_SkipsMissing(p) ==
    LET chunk == KvGetText(kv, ChunkKey(req[p].fullKey, req[p].i))
        acc   == IF chunk.null THEN req[p].acc ELSE Append(req[p].acc, chunk.text)
    IN IF req[p].i + 1 < req[p].n
       THEN [req[p] EXCEPT !.acc = acc, !.i = @ + 1]
       ELSE IF Join(acc) = <<>>
            THEN [req[p] EXCEPT !.pc = "get_plain", !.acc = <<>>, !.i = 0, !.n = 0]
            ELSE AfterReconstruct(p, Join(acc))

\* Mutant of reconstructStep: a missing chunk is noted, the remaining chunk
\* keys are still read, and null is returned after the last one.
reconstructStep_ReadsOn(p) ==
    LET chunk == KvGetText(kv, ChunkKey(req[p].fullKey, req[p].i))
        missing == chunk.null \/ chunk.text = <<>> \/ req[p].acc = <<(<<>>)>>
    IN IF req[p].i + 1 < req[p].n
       THEN [req[p] EXCEPT !.acc = IF missing THEN <<(<<>>)>> ELSE Append(@, chunk.text),
                           !.i = @ + 1]
       ELSE IF missing
            THEN [req[p] EXCEPT !.pc = "get_plain", !.acc = <<>>, !.i = 0, !.n = 0]
            ELSE AfterReconstruct(p, Join(Append(req[p].acc, chunk.text)))

\* reconstructValue, one iteration of its loop (lines 53-61), and on the
\* last one the join and what get does with it.
reconstructStep(p) ==
    LET chunk == KvGetText(kv, ChunkKey(req[p].fullKey, req[p].i)) IN
    IF chunk.null \/ chunk.text = <<>>
    THEN [req[p] EXCEPT !.pc = "get_plain", !.acc = <<>>, !.i = 0, !.n = 0]
    ELSE IF req[p].i + 1 < req[p].n
    THEN [req[p] EXCEPT !.acc = Append(@, chunk.text), !.i = @ + 1]
    ELSE AfterReconstruct(p, Join(Append(req[p].acc, chunk.text)))

\* Mutant of GetChunk: a get that finds a chunk missing removes the
\* dangling metadata key.
GetChunk_DropsDanglingMetadata(p) ==
    /\ req[p].pc = "get_chunk"
    /\ req' = [req EXCEPT ![p] = reconstructStep(p)]
    /\ kv' = IF req'[p].pc = "get_plain" THEN KvDelete(kv, MetaKey(req[p].fullKey))
             ELSE kv
    /\ observed' = IF req'[p].pc = "done" THEN Observe(p, req'[p].resp) ELSE observed
    /\ Called(p, "get", ChunkKey(req[p].fullKey, req[p].i))
    /\ UNCHANGED <<last, codecVars>>

GetChunk(p) ==
    /\ req[p].pc = "get_chunk"
    /\ req' = [req EXCEPT ![p] = reconstructStep(p)]
    /\ observed' = IF req'[p].pc = "done" THEN Observe(p, req'[p].resp) ELSE observed
    /\ Called(p, "get", ChunkKey(req[p].fullKey, req[p].i))
    /\ UNCHANGED <<kv, last, codecVars>>

\* line 123-135: the plain key is read as JSON and returned, null included.
GetPlain(p) ==
    /\ req[p].pc = "get_plain"
    /\ LET stored == KvGetJson(kv, req[p].fullKey) IN
       req' = [req EXCEPT ![p] =
                 IF stored.ok THEN Ended(p, DataResponse(stored.v))
                 ELSE Ended(p, ErrorResponse)]
    /\ observed' = Observe(p, req'[p].resp)
    /\ Called(p, "get", req[p].fullKey)
    /\ UNCHANGED <<kv, last, codecVars>>

(* ------------------------------- put ----------------------------------- *)

\* line 139-146: the value is serialized and the branch chosen.
StartPut(p, tab, key, value) ==
    Begin(p, "put", tab, key, value,
          IF needsChunking(JsonStringify(value)) THEN "put_oldmeta" ELSE "putp_oldmeta")

\* line 139 throws: the outer catch answers 500 (line 244-267) before any
\* backing-store call.
StartPutThrows(p, tab, key) ==
    /\ Quiet(p)
    /\ LET fk == FullKey(tab, key)
           ended == [Idle EXCEPT !.pc = "done", !.op = "put", !.tab = tab,
                                 !.key = key, !.fullKey = fk,
                                 !.value = Unserializable,
                                 !.prePlain = Has(kv, fk), !.preN = MetaCount(kv, fk),
                                 !.resp = ErrorResponse]
       IN /\ req' = [req EXCEPT ![p] = ended]
          /\ last' = [last EXCEPT ![fk] =
                         [op |-> "put", value |-> Unserializable,
                          prePlain |-> ended.prePlain, preN |-> ended.preN,
                          ok |-> FALSE]]
    /\ calls' = [calls EXCEPT ![p] = <<>>]
    /\ UNCHANGED <<kv, observed, codecVars, overlap>>

\* line 139-146 for a request without value: JSON.stringify(undefined) is
\* undefined, which TextEncoder.encode takes as the empty string, so
\* needsChunking is false and the plain branch runs.
StartPutUndefined(p, tab, key) ==
    Begin(p, "put", tab, key, Undefined, "putp_oldmeta")

\* line 159: the chunks are computed once the old ones are gone.
ToWrite(p) ==
    [req[p] EXCEPT !.pc = "put_write", !.i = 0, !.n = 0,
                   !.chunks = chunkValue(JsonStringify(req[p].value))]

\* Mutant of PutOldMeta: the chunked branch goes straight to line 159, the
\* old chunks are left in place.
PutOldMeta_NoCleanup(p) ==
    /\ req[p].pc = "put_oldmeta"
    /\ req' = [req EXCEPT ![p] = ToWrite(p)]
    /\ Called(p, "get", MetaKey(req[p].fullKey))
    /\ UNCHANGED <<kv, last, observed, codecVars>>

\* line 150-152, chunked branch: the old metadata is read.
PutOldMeta(p) ==
    /\ req[p].pc = "put_oldmeta"
    /\ LET oldMetadata == KvGetJson(kv, MetaKey(req[p].fullKey)) IN
       IF ~oldMetadata.ok
       THEN /\ req' = [req EXCEPT ![p] = Ended(p, ErrorResponse)]
            /\ last' = Record(p, FALSE)
       ELSE /\ req' = [req EXCEPT ![p] =
                        IF IsChunkMetadata(oldMetadata.v) /\ oldMetadata.v.chunks > 0
                        THEN [req[p] EXCEPT !.pc = "put_delold", !.i = 0,
                                            !.n = oldMetadata.v.chunks]
                        ELSE ToWrite(p)]
            /\ last' = last
    /\ Called(p, "get", MetaKey(req[p].fullKey))
    /\ UNCHANGED <<kv, observed, codecVars>>

\* Mutant of PutDelOld: the loop of line 153 stops after its first deletion.
PutDelOld_OnlyFirst(p) ==
    /\ req[p].pc = "put_delold"
    /\ kv' = KvDelete(kv, ChunkKey(req[p].fullKey, req[p].i))
    /\ req' = [req EXCEPT ![p] = ToWrite(p)]
    /\ Called(p, "delete", ChunkKey(req[p].fullKey, req[p].i))
    /\ UNCHANGED <<last, observed, codecVars>>

\* Mutant of PutDelOld: the loop of line 153 runs but deletes nothing.
PutDelOld_DeletesNothing(p) ==
    /\ req[p].pc = "put_delold"
    /\ kv' = kv
    /\ req' = [req EXCEPT ![p] =
                 IF req[p].i + 1 < req[p].n THEN [req[p] EXCEPT !.i = @ + 1]
                 ELSE ToWrite(p)]
    /\ Called(p, "delete", ChunkKey(req[p].fullKey, req[p].i))
    /\ UNCHANGED <<last, observed, codecVars>>

\* line 153-155: one old chunk key is deleted.
PutDelOld(p) ==
    /\ req[p].pc = "put_delold"
    /\ kv' = KvDelete(kv, ChunkKey(req[p].fullKey, req[p].i))
    /\ req' = [req EXCEPT ![p] =
                 IF req[p].i + 1 < req[p].n THEN [req[p] EXCEPT !.i = @ + 1]
                 ELSE ToWrite(p)]
    /\ Called(p, "delete", ChunkKey(req[p].fullKey, req[p].i))
    /\ UNCHANGED <<last, observed, codecVars>>

\* Mutant of PutWrite: the chunks are stored from the last index down.
PutWrite_Descending(p) ==
    /\ req[p].pc = "put_write"
    /\ LET j == Len(req[p].chunks) - 1 - req[p].i IN
       /\ kv' = KvPut(kv, ChunkKey(req[p].fullKey, j), req[p].chunks[j + 1])
       /\ Called(p, "put", ChunkKey(req[p].fullKey, j))
    /\ req' = [req EXCEPT ![p] =
                 IF req[p].i + 1 < Len(req[p].chunks) THEN [req[p] EXCEPT !.i = @ + 1]
                 ELSE [req[p] EXCEPT !.pc = "put_meta", !.i = 0]]
    /\ UNCHANGED <<last, observed, codecVars>>

\* line 163-165: one chunk is stored.
PutWrite(p) ==
    /\ req[p].pc = "put_write"
    /\ kv' = KvPut(kv, ChunkKey(req[p].fullKey, req[p].i), req[p].chunks[req[p].i + 1])
    /\ req' = [req EXCEPT ![p] =
                 IF req[p].i + 1 < Len(req[p].chunks) THEN [req[p] EXCEPT !.i = @ + 1]
                 ELSE [req[p] EXCEPT !.pc = "put_meta", !.i = 0]]
    /\ Called(p, "put", ChunkKey(req[p].fullKey, req[p].i))
    /\ UNCHANGED <<last, observed, codecVars>>

\* Mutant of PutMeta: a metadata key that exists is left as it is.
PutMeta_KeepsOldCount(p) ==
    /\ req[p].pc = "put_meta"
    /\ kv' = IF Has(kv, MetaKey(req[p].fullKey)) THEN kv
             ELSE KvPut(kv, MetaKey(req[p].fullKey),
                        JsonStringify(ChunksObject(Len(req[p].chunks))))
    /\ req' = [req EXCEPT ![p].pc = "put_delplain"]
    /\ Called(p, "put", MetaKey(req[p].fullKey))
    /\ UNCHANGED <<last, observed, codecVars>>

\* line 168: the metadata key is stored.
PutMeta(p) ==
    /\ req[p].pc = "put_meta"
    /\ kv' = KvPut(kv, MetaKey(req[p].fullKey),
                   JsonStringify(ChunksObject(Len(req[p].chunks))))
    /\ req' = [req EXCEPT ![p].pc = "put_delplain"]
    /\ Called(p, "put", MetaKey(req[p].fullKey))
    /\ UNCHANGED <<last, observed, codecVars>>

\* Mutant of PutDelPlain: the chunked branch forgets line 171.
PutDelPlain_KeepsPlain(p) ==
    /\ req[p].pc = "put_delplain"
    /\ kv' = kv
    /\ req' = [req EXCEPT ![p] = Ended(p, OkResponse)]
    /\ last' = Record(p, TRUE)
    /\ Called(p, "delete", req[p].fullKey)
    /\ UNCHANGED <<observed, codecVars>>

\* line 171 and 190: the plain key is deleted, the put answers success.
PutDelPlain(p) ==
    /\ req[p].pc = "put_delplain"
    /\ kv' = KvDelete(kv, req[p].fullKey)
    /\ req' = [req EXCEPT ![p] = Ended(p, OkResponse)]
    /\ last' = Record(p, TRUE)
    /\ Called(p, "delete", req[p].fullKey)
    /\ UNCHANGED <<observed, codecVars>>

\* line 177-179, plain branch: the old metadata is read.
PutpOldMeta(p) ==
    /\ req[p].pc = "putp_oldmeta"
    /\ LET oldMetadata == KvGetJson(kv, MetaKey(req[p].fullKey)) IN
       IF ~oldMetadata.ok
       THEN /\ req' = [req EXCEPT ![p] = Ended(p, ErrorResponse)]
            /\ last' = Record(p, FALSE)
       ELSE /\ req' = [req EXCEPT ![p] =
                        IF IsChunkMetadata(oldMetadata.v)
                        THEN IF oldMetadata.v.chunks > 0
                             THEN [req[p] EXCEPT !.pc = "putp_delold", !.i = 0,
                                                 !.n = oldMetadata.v.chunks]
                             ELSE [req[p] EXCEPT !.pc = "putp_delmeta"]
                        ELSE [req[p] EXCEPT !.pc = "putp_write"]]
            /\ last' = last
    /\ Called(p, "get", MetaKey(req[p].fullKey))
    /\ UNCHANGED <<kv, observed, codecVars>>

\* line 180-182: one old chunk key is deleted.
PutpDelOld(p) ==
    /\ req[p].pc = "putp_delold"
    /\ kv' = KvDelete(kv, ChunkKey(req[p].fullKey, req[p].i))
    /\ req' = [req EXCEPT ![p] =
                 IF req[p].i + 1 < req[p].n THEN [req[p] EXCEPT !.i = @ + 1]
                 ELSE [req[p] EXCEPT !.pc = "putp_delmeta", !.i = 0, !.n = 0]]
    /\ Called(p, "delete", ChunkKey(req[p].fullKey, req[p].i))
    /\ UNCHANGED <<last, observed, codecVars>>

\* Mutant of PutpDelMeta: the plain branch forgets line 183.
PutpDelMeta_KeepsMeta(p) ==
    /\ req[p].pc = "putp_delmeta"
    /\ kv' = kv
    /\ req' = [req EXCEPT ![p].pc = "putp_write"]
    /\ Called(p, "delete", MetaKey(req[p].fullKey))
    /\ UNCHANGED <<last, observed, codecVars>>

\* line 183: the metadata key is deleted.
PutpDelMeta(p) ==
    /\ req[p].pc = "putp_delmeta"
    /\ kv' = KvDelete(kv, MetaKey(req[p].fullKey))
    /\ req' = [req EXCEPT ![p].pc = "putp_write"]
    /\ Called(p, "delete", MetaKey(req[p].fullKey))
    /\ UNCHANGED <<last, observed, codecVars>>

\* line 186 with jsonString undefined: what the KV binding does with a
\* value that is no string is not fixed by the source; it throws, or it
\* stores the text the value coerces to.
UndefinedText == <<117, 110, 100, 101, 102, 105, 110, 101, 100>>

PutpWriteUndefined(p) ==
    /\ req[p].pc = "putp_write"
    /\ req[p].value = Undefined
    /\ \/ /\ kv' = KvPut(kv, req[p].fullKey, UndefinedText)
          /\ req' = [req EXCEPT ![p] = Ended(p, OkResponse)]
          /\ last' = Record(p, TRUE)
          /\ Called(p, "put", req[p].fullKey)
       \/ /\ kv' = kv
          /\ req' = [req EXCEPT ![p] = Ended(p, ErrorResponse)]
          /\ last' = Record(p, FALSE)
          /\ calls' = [calls EXCEPT ![p] = Append(@, PendingCall(p))]
          /\ UNCHANGED overlap
    /\ UNCHANGED <<observed, codecVars>>

\* line 186 and 190: the plain key is stored, the put answers success.
PutpWrite(p) ==
    /\ req[p].pc = "putp_write"
    /\ req[p].value # Undefined
    /\ kv' = KvPut(kv, req[p].fullKey, JsonStringify(req[p].value))
    /\ req' = [req EXCEPT ![p] = Ended(p, OkResponse)]
    /\ last' = Record(p, TRUE)
    /\ Called(p, "put", req[p].fullKey)
    /\ UNCHANGED <<observed, codecVars>>

(* ------------------------------ delete --------------------------------- *)

StartDelete(p, tab, key) == Begin(p, "delete", tab, key, Null, "del_meta")

\* line 204-206: the metadata is read.
DelMeta(p) ==
    /\ req[p].pc = "del_meta"
    /\ LET metadata == KvGetJson(kv, MetaKey(req[p].fullKey)) IN
       IF ~metadata.ok
       THEN /\ req' = [req EXCEPT ![p] = Ended(p, ErrorResponse)]
            /\ last' = Record(p, FALSE)
       ELSE /\ req' = [req EXCEPT ![p] =
                        IF IsChunkMetadata(metadata.v)
                        THEN IF metadata.v.chunks > 0
                             THEN [req[p] EXCEPT !.pc = "del_chunks", !.i = 0,
                                                 !.n = metadata.v.chunks]
                             ELSE [req[p] EXCEPT !.pc = "del_delmeta"]
                        ELSE [req[p] EXCEPT !.pc = "del_plain"]]
            /\ last' = last
    /\ Called(p, "get", MetaKey(req[p].fullKey))
    /\ UNCHANGED <<kv, observed, codecVars>>

\* Mutant of DelChunks: the loop runs but removes no chunk key.
\* Mutant of DelChunks: the metadata key is deleted along with the chunk.
DelChunks_MetaFirst(p) ==
    /\ req[p].pc = "del_chunks"
    /\ kv' = KvDelete(KvDelete(kv, MetaKey(req[p].fullKey)),
                      ChunkKey(req[p].fullKey, req[p].i))
    /\ req' = [req EXCEPT ![p] =
                 IF req[p].i + 1 < req[p].n THEN [req[p] EXCEPT !.i = @ + 1]
                 ELSE [req[p] EXCEPT !.pc = "del_delmeta", !.i = 0, !.n = 0]]
    /\ Called(p, "delete", ChunkKey(req[p].fullKey, req[p].i))
    /\ UNCHANGED <<last, observed, codecVars>>

\* Mutant of DelChunks: the loop of line 207 runs but deletes nothing.
DelChunks_DeletesNothing(p) ==
    /\ req[p].pc = "del_chunks"
    /\ req' = [req EXCEPT ![p] =
                 IF req[p].i + 1 < req[p].n THEN [req[p] EXCEPT !.i = @ + 1]
                 ELSE [req[p] EXCEPT !.pc = "del_delmeta", !.i = 0, !.n = 0]]
    /\ Called(p, "delete", ChunkKey(req[p].fullKey, req[p].i))
    /\ UNCHANGED <<kv, last, observed, codecVars>>

\* line 207-209: one chunk key is deleted.
DelChunks(p) ==
    /\ req[p].pc = "del_chunks"
    /\ kv' = KvDelete(kv, ChunkKey(req[p].fullKey, req[p].i))
    /\ req' = [req EXCEPT ![p] =
                 IF req[p].i + 1 < req[p].n THEN [req[p] EXCEPT !.i = @ + 1]
                 ELSE [req[p] EXCEPT !.pc = "del_delmeta", !.i = 0, !.n = 0]]
    /\ Called(p, "delete", ChunkKey(req[p].fullKey, req[p].i))
    /\ UNCHANGED <<last, observed, codecVars>>

\* line 210: the metadata key is deleted.
DelDelMeta(p) ==
    /\ req[p].pc = "del_delmeta"
    /\ kv' = KvDelete(kv, MetaKey(req[p].fullKey))
    /\ req' = [req EXCEPT ![p].pc = "del_plain"]
    /\ Called(p, "delete", MetaKey(req[p].fullKey))
    /\ UNCHANGED <<last, observed, codecVars>>

\* Mutant of DelPlain: the plain key is overwritten with a null tombstone
\* instead of being removed.
DelPlain_WritesTombstone(p) ==
    /\ req[p].pc = "del_plain"
    /\ kv' = KvPut(kv, req[p].fullKey, JsonStringify(Null))
    /\ req' = [req EXCEPT ![p] = Ended(p, OkResponse)]
    /\ last' = Record(p, TRUE)
    /\ Called(p, "delete", req[p].fullKey)
    /\ UNCHANGED <<observed, codecVars>>

\* line 214-216: the plain key is deleted, the delete answers success.
DelPlain(p) ==
    /\ req[p].pc = "del_plain"
    /\ kv' = KvDelete(kv, req[p].fullKey)
    /\ req' = [req EXCEPT ![p] = Ended(p, OkResponse)]
    /\ last' = Record(p, TRUE)
    /\ Called(p, "delete", req[p].fullKey)
    /\ UNCHANGED <<observed, codecVars>>

(* ------------------------------- list ---------------------------------- *)

\* The names of the keys the backing store lists for the prefix.
KvList(store, prefix) == {k \in DOMAIN store : StartsWith(k, prefix)}

StartList(p, tab, key) == Begin(p, "list", tab, key, Null, "list_keys")

EndsWith(k, suffix) ==
    Len(k) >= Len(suffix) /\ SubSeq(k, Len(k) - Len(suffix) + 1, Len(k)) = suffix

\* Mutant of ListKeys: metadata keys and chunk keys are filtered out.
ListKeys_LogicalOnly(p) ==
    /\ req[p].pc = "list_keys"
    /\ req' = [req EXCEPT ![p] =
                 Ended(p, ListResponse(
                     {k \in KvList(kv, ListPrefix(req[p].tab)) :
                         /\ ~EndsWith(k, CHUNK_METADATA_KEY)
                         /\ \A j \in 0..MaxIndex :
                               ~EndsWith(k, "__chunk_" \o ToString(j))}))]
    /\ Called(p, "list", ListPrefix(req[p].tab))
    /\ UNCHANGED <<kv, last, observed, codecVars>>

\* line 225-232: the keys under the prefix are listed and returned.
ListKeys(p) ==
    /\ req[p].pc = "list_keys"
    /\ req' = [req EXCEPT ![p] =
                 Ended(p, ListResponse(KvList(kv, ListPrefix(req[p].tab))))]
    /\ Called(p, "list", ListPrefix(req[p].tab))
    /\ UNCHANGED <<kv, last, observed, codecVars>>

(* ------------------------ failures, environment ------------------------ *)

\* Mutant of Fail: the failure is masked, the request answers success with
\* a null value.
Fail_AnswersNull(p) ==
    /\ ~Quiet(p)
    /\ req' = [req EXCEPT ![p] = Ended(p, DataResponse(Null))]
    /\ last' = IF req[p].op \in {"get", "list"} THEN last ELSE Record(p, FALSE)
    /\ calls' = [calls EXCEPT ![p] = Append(@, PendingCall(p))]
    /\ UNCHANGED <<kv, observed, codecVars, overlap>>

\* The backing-store call the request is waiting for throws: the put case
\* rethrows (line 196-199) and the outer catch answers 500 (line 244-267).
\* The call has had no effect on the store.
Fail(p) ==
    /\ ~Quiet(p)
    /\ req' = [req EXCEPT ![p] = Ended(p, ErrorResponse)]
    /\ last' = IF req[p].op \in {"get", "list"} THEN last ELSE Record(p, FALSE)
    /\ calls' = [calls EXCEPT ![p] = Append(@, PendingCall(p))]
    /\ UNCHANGED <<kv, observed, codecVars, overlap>>

\* A chunk key is deleted by hand, outside the handler, between requests.
OutOfBandDelete(fullKeys) ==
    /\ AllQuiet
    /\ \E fk \in fullKeys, j \in 0..MaxIndex :
          /\ Has(kv, ChunkKey(fk, j))
          /\ kv' = KvDelete(kv, ChunkKey(fk, j))
    /\ UNCHANGED <<req, last, observed, codecVars, calls, overlap>>

(* ------------------------- the codec on its own ------------------------ *)

\* chunkValue applied to the input string.
ApplyChunkValue ==
    /\ cstage = "in"
    /\ cout' = chunkValue(cin)
    /\ cstage' = "out"
    /\ UNCHANGED <<kv, req, last, observed, cin, calls, overlap>>

(* --------------------------- specifications ---------------------------- *)

\* Code points of the strings: a, e-acute (2 bytes), the euro sign (3 bytes),
\* an emoji (4 bytes) and the byte order mark.
Alphabet == {97, 233, 8364, 128512, BOM}

Strings == UNION {[1..n -> Alphabet] : n \in 0..MaxLen}

Tabs == {""}

Keys == {"a", "b"}

FullKeys == {FullKey(tab, key) : tab \in Tabs, key \in Keys}

RepeatA(n) == [j \in 1..n |-> 97]

\* Documents: small ones, one whose JSON is exactly MAX_CHUNK_SIZE bytes, one
\* of two chunks, one of three, and one whose e-acute lies across the first
\* window boundary.
DocSmall == Str(<<97>>)

DocExact == Str(RepeatA(MAX_CHUNK_SIZE - 2))

DocTwo == Str(RepeatA(MAX_CHUNK_SIZE - 1))

DocThree == Str(RepeatA(2 * MAX_CHUNK_SIZE - 1))

DocStraddle == Str(RepeatA(MAX_CHUNK_SIZE - 2) \o <<233>>)

Docs == {DocSmall, DocExact, DocTwo, DocThree, DocStraddle}

\* An empty store; the history of puts and deletes is kept for fullKeys.
StoreInitOn(fullKeys) ==
    /\ kv = [k \in {} |-> <<>>]
    /\ req = [p \in Procs |-> Idle]
    /\ last = [fk \in fullKeys |-> NoOp]
    /\ observed = {}
    /\ calls = [p \in Procs |-> <<>>]
    /\ overlap = [p \in Procs \cup {"any"} |-> FALSE]

StoreInit == StoreInitOn(FullKeys)

Init ==
    /\ StoreInit
    /\ cin = <<>> /\ cout = <<>> /\ cstage = "off"

InitCodec ==
    /\ StoreInit
    /\ cin \in Strings /\ cout = <<>> /\ cstage = "in"

\* One request at a time runs from arrival to response.
Step(p) ==
    \/ GetMeta(p) \/ GetChunk(p) \/ GetPlain(p)
    \/ PutOldMeta(p) \/ PutDelOld(p) \/ PutWrite(p) \/ PutMeta(p) \/ PutDelPlain(p)
    \/ PutpOldMeta(p) \/ PutpDelOld(p) \/ PutpDelMeta(p) \/ PutpWrite(p)
    \/ DelMeta(p) \/ DelChunks(p) \/ DelDelMeta(p) \/ DelPlain(p)

Arrive(p, keys) ==
    \E tab \in Tabs, key \in keys :
        \/ StartGet(p, tab, key)
        \/ \E value \in Docs : StartPut(p, tab, key, value)
        \/ StartDelete(p, tab, key)

Next == Arrive("p1", Keys) \/ Step("p1")

NextFail == Arrive("p1", {"a"}) \/ Step("p1") \/ Fail("p1")

NextOob == Arrive("p1", {"a"}) \/ Step("p1") \/ OutOfBandDelete({"a"})

\* Sequential caller, no failure.
Spec == Init /\ [][Next]_vars

\* Sequential caller, backing-store calls may fail.
SpecFail == Init /\ [][NextFail]_vars

\* Sequential caller, chunk keys may be removed out of band.
SpecOob == Init /\ [][NextOob]_vars

SpecCodec == InitCodec /\ [][ApplyChunkValue]_vars

\* Two writers put to one key, their backing-store calls interleaved in any
\* way (each request is its own invocation of the handler): the first
\* writer puts any number of times, the second one once, while the first
\* one's last put is in flight or after it; a reader gets the key once the
\* writers are done.
Writers == {"p1", "p2"}

Reader == "p3"

ConcDocs == {DocSmall, DocTwo, DocThree}

GetPutStep(p) ==
    \/ GetMeta(p) \/ GetChunk(p) \/ GetPlain(p)
    \/ PutOldMeta(p) \/ PutDelOld(p) \/ PutWrite(p) \/ PutMeta(p) \/ PutDelPlain(p)
    \/ PutpOldMeta(p) \/ PutpDelOld(p) \/ PutpDelMeta(p) \/ PutpWrite(p)

ArriveConc ==
    \/ \E p \in Writers, value \in ConcDocs :
          /\ req[Reader].pc = "idle" /\ req["p2"].pc = "idle"
          /\ StartPut(p, "", "a", value)
    \/ AllQuiet /\ StartGet(Reader, "", "a")

NextConc == ArriveConc \/ \E p \in Procs : GetPutStep(p)

SpecConc == Init /\ [][NextConc]_vars

\* Sequential caller on one key, some of whose puts carry a value that has
\* no JSON text.
ArriveAny(p, tab, key) ==
    \/ StartGet(p, tab, key)
    \/ \E value \in {DocSmall, DocTwo, DocThree} : StartPut(p, tab, key, value)
    \/ StartPutThrows(p, tab, key)
    \/ StartPutUndefined(p, tab, key)
    \/ StartDelete(p, tab, key)

NextSer == ArriveAny("p1", "", "a") \/ Step("p1") \/ PutpWriteUndefined("p1")

SpecSer == Init /\ [][NextSer]_vars

\* Sequential caller on one key whose puts carry the input string as their
\* document, or the three-chunk document.
ArriveString(p, tab, key) ==
    \/ StartGet(p, tab, key)
    \/ \E value \in {Str(cin), DocThree} : StartPut(p, tab, key, value)
    \/ StartDelete(p, tab, key)

NextString == ArriveString("p1", "", "a") \/ Step("p1")

SpecString == InitCodec /\ [][NextString]_vars

\* Sequential callers of one entry: the first names it by tab and key, the
\* second by the prefixed key and no tab.
TabDocs == {DocSmall, DocTwo, DocThree}

InitTab ==
    /\ StoreInitOn({"t-a"})
    /\ cin = <<>> /\ cout = <<>> /\ cstage = "off"

ArriveTab ==
    /\ AllQuiet
    /\ \E r \in {<<"p1", "t", "a">>, <<"p2", "", "t-a">>} :
          \/ StartGet(r[1], r[2], r[3])
          \/ \E value \in TabDocs : StartPut(r[1], r[2], r[3], value)
          \/ StartDelete(r[1], r[2], r[3])

NextTab == ArriveTab \/ \E p \in {"p1", "p2"} : Step(p)

SpecTab == InitTab /\ [][NextTab]_vars

\* A writer under tab t-u and two readers, under tab t and under tab u, one
\* request at a time. Nothing is ever written under the readers' tabs.
WriterTab == "t-u"

ReaderTabs == {"t", "u"}

InitIso ==
    /\ StoreInitOn({"t-u-a"})
    /\ cin = <<>> /\ cout = <<>> /\ cstage = "off"

ArriveIso ==
    /\ AllQuiet
    /\ \/ \E value \in TabDocs : StartPut("p1", WriterTab, "a", value)
       \/ StartDelete("p1", WriterTab, "a")
       \/ \E r \in {<<"p2", "t", "u-a">>, <<"p3", "u", "a">>} :
             StartGet(r[1], r[2], r[3]) \/ StartList(r[1], r[2], r[3])

NextIso == ArriveIso \/ \E p \in Procs : Step(p) \/ ListKeys(p)

SpecIso == InitIso /\ [][NextIso]_vars

\* A sequential caller of two entries, one under tab t and one without tab,
\* who also lists the keys under the tab and all keys.
ListEntries == {<<"t", "a">>, <<"", "b">>}

InitList ==
    /\ StoreInitOn({FullKey(e[1], e[2]) : e \in ListEntries})
    /\ cin = <<>> /\ cout = <<>> /\ cstage = "off"

ArriveList ==
    \E e \in ListEntries :
        \/ StartGet("p1", e[1], e[2])
        \/ \E value \in TabDocs : StartPut("p1", e[1], e[2], value)
        \/ StartDelete("p1", e[1], e[2])
        \/ StartList("p1", e[1], e[2])

NextList == ArriveList \/ Step("p1") \/ ListKeys("p1")

SpecList == InitList /\ [][NextList]_vars

\* A writer puts to one key one put after the other; a reader gets the key
\* once, at any moment of a put or between puts, and no put begins after
\* the get has begun: the get overlaps one put at most.
ArriveRace ==
    /\ req[Reader].pc = "idle"
    /\ \/ \E value \in ConcDocs : StartPut("p1", "", "a", value)
       \/ StartGet(Reader, "", "a")

NextRace == ArriveRace \/ \E p \in {"p1", Reader} : GetPutStep(p)

SpecRace == Init /\ [][NextRace]_vars

\* A sequential caller puts to one key and gets it; one backing-store call
\* of one put may fail, and after that put the key is only read.
ArriveCrash ==
    \/ last["a"].ok /\ \E value \in ConcDocs : StartPut("p1", "", "a", value)
    \/ StartGet("p1", "", "a")

NextCrash ==
    \/ ArriveCrash
    \/ GetPutStep("p1")
    \/ req["p1"].op = "put" /\ Fail("p1")

SpecCrash == Init /\ [][NextCrash]_vars

\* A sequential caller of two logical keys, the second of which is spelled
\* like the first chunk key of the first.
CollidingKeys == {"a", ChunkKey("a", 0)}

InitKeys ==
    /\ StoreInitOn(CollidingKeys)
    /\ cin = <<>> /\ cout = <<>> /\ cstage = "off"

ArriveKeys ==
    \E key \in CollidingKeys :
        \/ StartGet("p1", "", key)
        \/ \E value \in TabDocs : StartPut("p1", "", key, value)
        \/ StartDelete("p1", "", key)

NextKeys == ArriveKeys \/ Step("p1")

SpecKeys == InitKeys /\ [][NextKeys]_vars

\* A sequential caller puts to and deletes one key, any of its
\* backing-store calls may fail; then the key is read twice in a row.
Rereaders == <<"p2", "p3">>

ArriveReread ==
    \/ /\ AllQuiet /\ req[Rereaders[1]].pc = "idle"
       /\ \/ \E value \in ConcDocs : StartPut("p1", "", "a", value)
          \/ StartDelete("p1", "", "a")
          \/ StartGet(Rereaders[1], "", "a")
    \/ /\ req[Rereaders[1]].pc = "done" /\ req[Rereaders[2]].pc = "idle"
       /\ StartGet(Rereaders[2], "", "a")

NextReread == ArriveReread \/ (\E p \in Procs : Step(p)) \/ Fail("p1")

SpecReread == Init /\ [][NextReread]_vars

(* ------------------------------ layouts -------------------------------- *)

ChunkIndices(store, fullKey) == {j \in 0..MaxIndex : Has(store, ChunkKey(fullKey, j))}

IsAbsent(store, fullKey) ==
    /\ ~Has(store, fullKey) /\ ~Has(store, MetaKey(fullKey))
    /\ ChunkIndices(store, fullKey) = {}

IsPlain(store, fullKey) ==
    /\ Has(store, fullKey) /\ ~Has(store, MetaKey(fullKey))
    /\ ChunkIndices(store, fullKey) = {}

IsChunked(store, fullKey) ==
    /\ ~Has(store, fullKey) /\ Has(store, MetaKey(fullKey))
    /\ MetaCount(store, fullKey) >= 1
    /\ ChunkIndices(store, fullKey) = 0..(MetaCount(store, fullKey) - 1)

\* The last operation that ended on fullKey was a successful put of a value
\* that is chunked (large = TRUE) or stored plainly (large = FALSE).
LastPut(fullKey, large) ==
    /\ last[fullKey].op = "put" /\ last[fullKey].ok
    /\ needsChunking(JsonStringify(last[fullKey].value)) = large

\* A get of fullKey has ended with response r.
GetEnded(p, fullKey) ==
    req[p].pc = "done" /\ req[p].op = "get" /\ req[p].fullKey = fullKey

(* ------------------------------- claims -------------------------------- *)

\* C1: round-trip law of chunkValue: for every string whose UTF-8 length
\* exceeds MAX_CHUNK_SIZE, the chunks joined in order are the string itself.
C1_RoundTrip ==
    (cstage = "out" /\ ByteLength(cin) > MAX_CHUNK_SIZE) => Join(cout) = cin

\* C2: read-your-write: a get that follows a successful put(k, d) of a
\* sequential caller returns d.
C2_ReadYourWrite ==
    \A p \in Procs, fk \in FullKeys :
        (GetEnded(p, fk) /\ last[fk].op = "put" /\ last[fk].ok)
            => req[p].resp = DataResponse(last[fk].value)

\* C3: layout exclusivity: between completed puts and deletes every logical
\* key is Absent, Plain or Chunked, and the plain key and the metadata key
\* never both exist.
C3_LayoutExclusive ==
    AllQuiet =>
        \A fk \in FullKeys :
            /\ IsAbsent(kv, fk) \/ IsPlain(kv, fk) \/ IsChunked(kv, fk)
            /\ ~(Has(kv, fk) /\ Has(kv, MetaKey(fk)))

C3_Witness ==
    /\ AllQuiet
    /\ \E fk \in FullKeys : IsChunked(kv, fk) /\ LastPut(fk, TRUE) /\ last[fk].prePlain
    /\ \E fk \in FullKeys : IsPlain(kv, fk) /\ LastPut(fk, FALSE) /\ last[fk].preN > 0

\* C4: chunked-layout well-formedness: between completed puts and deletes, a
\* metadata key holds {chunks: N} with N >= 1 and the chunk keys that exist
\* are exactly those of index 0..N-1; without a metadata key there is no
\* chunk key.
C4_ChunkedWellFormed ==
    AllQuiet =>
        \A fk \in FullKeys :
            IF Has(kv, MetaKey(fk))
            THEN LET m == JsonParse(kv[MetaKey(fk)]) IN
                 /\ m.ok /\ IsChunkMetadata(m.v) /\ m.v.chunks >= 1
                 /\ \A j \in 0..MaxIndex : Has(kv, ChunkKey(fk, j)) <=> j < m.v.chunks
            ELSE \A j \in 0..MaxIndex : ~Has(kv, ChunkKey(fk, j))

C4_Witness ==
    /\ AllQuiet
    /\ \E fk \in FullKeys :
          /\ LastPut(fk, TRUE) /\ last[fk].preN = 3
          /\ MetaCount(kv, fk) = 2 /\ Has(kv, ChunkKey(fk, 1))

\* C5: chunked -> plain cleanup: after a completed put of a chunked value and
\* then a completed put of a small value to the same key, no metadata key and
\* no chunk key of it exists, the plain key holds the small value and a get
\* returns it.
C5_ChunkedToPlain ==
    \A fk \in FullKeys :
        (AllQuiet /\ LastPut(fk, FALSE) /\ last[fk].preN > 0) =>
            /\ ~Has(kv, MetaKey(fk))
            /\ ChunkIndices(kv, fk) = {}
            /\ Has(kv, fk) /\ kv[fk] = JsonStringify(last[fk].value)
            /\ \A p \in Procs :
                  GetEnded(p, fk) => req[p].resp = DataResponse(last[fk].value)

C5_Witness ==
    \E fk \in FullKeys, p \in Procs :
        /\ AllQuiet /\ LastPut(fk, FALSE) /\ last[fk].preN = 3
        /\ GetEnded(p, fk) /\ req[p].resp = DataResponse(DocExact)

\* C6: chunk-count shrink cleanup: after a completed put of N chunks and then
\* a completed put of M chunks to the same key, 1 <= M < N, the chunk keys of
\* index M..N-1 do not exist and the metadata key records M.
C6_ShrinkCleanup ==
    \A fk \in FullKeys :
        LET M == Len(chunkValue(JsonStringify(last[fk].value)))
            N == last[fk].preN
        IN (AllQuiet /\ LastPut(fk, TRUE) /\ 1 <= M /\ M < N) =>
              /\ \A j \in M..(N - 1) : ~Has(kv, ChunkKey(fk, j))
              /\ Has(kv, MetaKey(fk))
              /\ JsonParse(kv[MetaKey(fk)]) = [ok |-> TRUE, v |-> ChunksObject(M)]

C6_Witness ==
    \E fk \in FullKeys :
        /\ AllQuiet /\ LastPut(fk, TRUE) /\ last[fk].preN = 3
        /\ Len(chunkValue(JsonStringify(last[fk].value))) = 2
        /\ ChunkIndices(kv, fk) = {0, 1}

\* C7: plain -> chunked cleanup: after a completed put of a small value and
\* then a completed put of a large value to the same key, the plain key does
\* not exist, the metadata key and every chunk key of the large value exist,
\* and a get returns the large value.
C7_PlainToChunked ==
    \A fk \in FullKeys :
        (AllQuiet /\ LastPut(fk, TRUE) /\ last[fk].prePlain) =>
            /\ ~Has(kv, fk)
            /\ Has(kv, MetaKey(fk))
            /\ \A j \in 0..(Len(chunkValue(JsonStringify(last[fk].value))) - 1) :
                  Has(kv, ChunkKey(fk, j))
            /\ \A p \in Procs :
                  GetEnded(p, fk) => req[p].resp = DataResponse(last[fk].value)

\* C8: no orphaned physical keys: once a put or a delete has completed
\* successfully, the physical keys derived from its key are exactly those of
\* the resulting layout, whatever failed before.
C8_NoOrphans ==
    \A fk \in FullKeys :
        (AllQuiet /\ last[fk].ok) =>
            /\ (last[fk].op = "delete" => IsAbsent(kv, fk))
            /\ (LastPut(fk, FALSE) => IsPlain(kv, fk))
            /\ (LastPut(fk, TRUE) =>
                   /\ IsChunked(kv, fk)
                   /\ MetaCount(kv, fk) = Len(chunkValue(JsonStringify(last[fk].value))))

\* C9: missing-chunk fail-fast: a get of a key whose chunked value was put
\* completely and one of whose chunk keys has since been removed, the
\* metadata key still recording the count, returns null and no document.
C9_MissingChunkNull ==
    \A p \in Procs, fk \in FullKeys :
        (GetEnded(p, fk) /\ LastPut(fk, TRUE) /\ req[p].sit = "integrity")
            => req[p].resp = DataResponse(Null)

C9_Witness ==
    \E p \in Procs, fk \in FullKeys :
        /\ GetEnded(p, fk) /\ LastPut(fk, TRUE) /\ req[p].sit = "integrity"
        /\ last[fk].value = DocThree
        /\ ChunkIndices(kv, fk) = {0, 2}
        /\ req[p].resp = DataResponse(Null)

\* C10: a get whose metadata key names a missing chunk and a get of a key
\* that has neither plain key nor metadata key never answer alike.
C10_IntegrityDistinct ==
    \A r \in {o[2] : o \in observed} :
        ~(<<"integrity", r>> \in observed /\ <<"absent", r>> \in observed)

\* C11: idempotent delete: a delete of a logical key that is absent (it never
\* existed, or a delete removed it) changes nothing in the backing store at
\* any of its steps and answers success.
C11_IdempotentDelete ==
    [][\A p \in Procs :
          (/\ req[p].op = "delete" /\ ~Quiet(p)
           /\ ~req[p].prePlain /\ req[p].preN = 0
           /\ IsAbsent(kv, req[p].fullKey))
          => /\ kv' = kv
             /\ req'[p].pc = "done" => req'[p].resp = OkResponse]_vars

\* The second of two deletes in a row has read the metadata key and is
\* about to end, another key holding a document.
C11_Witness ==
    \E p \in Procs, fk \in FullKeys :
        /\ req[p].op = "delete" /\ req[p].fullKey = fk /\ req[p].pc = "del_plain"
        /\ calls[p] = <<[op |-> "get", key |-> MetaKey(fk), ok |-> TRUE,
                         hit |-> FALSE]>>
        /\ last[fk].op = "delete" /\ last[fk].ok /\ last[fk].preN > 0
        /\ IsAbsent(kv, fk)
        /\ \E other \in FullKeys \ {fk} : IsChunked(kv, other)

\* C12: delete removes every layout: after a completed put of a plain or a
\* chunked value and then a completed delete of the key, its plain key, its
\* metadata key and its chunk keys are absent and a get returns null.
C12_DeleteRemovesAll ==
    \A fk \in FullKeys :
        (/\ AllQuiet /\ last[fk].op = "delete" /\ last[fk].ok
         /\ (last[fk].prePlain \/ last[fk].preN > 0))
        => /\ IsAbsent(kv, fk)
           /\ \A p \in Procs :
                 GetEnded(p, fk) => req[p].resp = DataResponse(Null)

C12_Witness ==
    \E fk \in FullKeys, gk \in FullKeys, p \in Procs :
        /\ AllQuiet
        /\ last[fk].op = "delete" /\ last[fk].ok /\ last[fk].preN = 3
        /\ last[gk].op = "delete" /\ last[gk].ok /\ last[gk].prePlain
        /\ GetEnded(p, fk) /\ req[p].resp = DataResponse(Null)

\* The backing-store calls of the request that are puts, in issue order.
PutCalls(p) == SelectSeq(calls[p], LAMBDA c : c.op = "put")

\* The request has issued the call op on key at position i of its log.
CallAt(p, i, op, key) == calls[p][i].op = op /\ calls[p][i].key = key

\* A put of a value that takes the chunked branch, in flight or ended.
ChunkedPut(p) ==
    req[p].op = "put" /\ needsChunking(JsonStringify(req[p].value))

\* C13: write ordering inside a chunked put: the chunk keys are written in
\* index order 0..N-1, the metadata key only after every chunk write has
\* succeeded, the plain key is deleted only after the metadata key has been
\* written; when a chunk write fails, this put neither writes the metadata
\* key nor deletes the plain key.
C13_WriteOrdering ==
    \A p \in Procs :
        ChunkedPut(p) =>
            LET fk == req[p].fullKey
                N  == Len(chunkValue(JsonStringify(req[p].value)))
                c  == calls[p]
            IN /\ Len(PutCalls(p)) <= N + 1
               /\ \A k \in 1..Len(PutCalls(p)) :
                     PutCalls(p)[k].key = IF k <= N THEN ChunkKey(fk, k - 1)
                                          ELSE MetaKey(fk)
               /\ \A i \in 1..Len(c) :
                     CallAt(p, i, "put", MetaKey(fk)) =>
                        \A k \in 0..(N - 1) : \E j \in 1..(i - 1) :
                            CallAt(p, j, "put", ChunkKey(fk, k)) /\ c[j].ok
               /\ \A i \in 1..Len(c) :
                     CallAt(p, i, "delete", fk) =>
                        \E j \in 1..(i - 1) :
                            CallAt(p, j, "put", MetaKey(fk)) /\ c[j].ok
               /\ (\E i \in 1..Len(c) :
                      /\ c[i].op = "put" /\ c[i].key # MetaKey(fk) /\ ~c[i].ok)
                  => /\ \A i \in 1..Len(c) :
                           /\ ~CallAt(p, i, "put", MetaKey(fk))
                           /\ ~CallAt(p, i, "delete", fk)
                     /\ Has(kv, fk) <=> req[p].prePlain
                     /\ MetaCount(kv, fk) = req[p].preN

\* A put of three chunks over a plain value whose second chunk write fails.
C13_Witness ==
    \E p \in Procs :
        /\ ChunkedPut(p) /\ req[p].pc = "done" /\ req[p].value = DocThree
        /\ req[p].prePlain /\ Has(kv, req[p].fullKey)
        /\ Len(calls[p]) = 3
        /\ CallAt(p, 1, "get", MetaKey(req[p].fullKey)) /\ calls[p][1].ok
        /\ CallAt(p, 2, "put", ChunkKey(req[p].fullKey, 0)) /\ calls[p][2].ok
        /\ CallAt(p, 3, "put", ChunkKey(req[p].fullKey, 1)) /\ ~calls[p][3].ok

\* C14: threshold of needsChunking: false for every string of at most
\* MAX_CHUNK_SIZE UTF-8 bytes, true for every string of MAX_CHUNK_SIZE + 1
\* bytes or more; a completed put leaves the chunked layout iff
\* needsChunking of the serialized document is true, the plain layout
\* otherwise.
C14_Threshold ==
    /\ ByteLength(cin) <= MAX_CHUNK_SIZE => ~needsChunking(cin)
    /\ ByteLength(cin) >= MAX_CHUNK_SIZE + 1 => needsChunking(cin)
    /\ \A fk \in FullKeys :
          (AllQuiet /\ last[fk].op = "put" /\ last[fk].ok) =>
              LET jsonString == JsonStringify(last[fk].value) IN
              /\ ByteLength(jsonString) <= MAX_CHUNK_SIZE =>
                     IsPlain(kv, fk) /\ kv[fk] = jsonString
              /\ ByteLength(jsonString) >= MAX_CHUNK_SIZE + 1 => IsChunked(kv, fk)
              /\ IsChunked(kv, fk) <=> needsChunking(jsonString)

\* A document of exactly MAX_CHUNK_SIZE serialized bytes, one code point of
\* it two bytes long, has replaced a chunked value and is stored plainly.
C14_Witness ==
    \E fk \in FullKeys :
        /\ AllQuiet /\ last[fk].op = "put" /\ last[fk].ok /\ last[fk].preN = 3
        /\ last[fk].value = Str(cin) /\ Len(cin) < ByteLength(cin)
        /\ ByteLength(JsonStringify(last[fk].value)) = MAX_CHUNK_SIZE
        /\ IsPlain(kv, fk)

\* C15: every chunk boundary of chunkValue lies on a code point boundary of
\* the encoded input: no chunk ends in the middle of a multi-byte code point
\* and no chunk starts on a continuation byte.
C15_CodepointBoundaries ==
    cstage = "out" =>
        LET bytes == Utf8Encode(cin)
            spans == ChunkSpans(bytes, 0)
        IN /\ Len(cout) = Len(spans)
           /\ \A k \in 1..Len(spans) :
                 /\ cout[k] = Utf8Decode(Slice(bytes, spans[k][1], spans[k][2]))
                 /\ ~IsContinuation(bytes[spans[k][1] + 1])
                 /\ spans[k][2] < Len(bytes) => ~IsContinuation(bytes[spans[k][2] + 1])

CeilDiv(a, b) == (a + b - 1) \div b

\* The number of chunk-key writes in the request's log of calls.
ChunkWrites(p) ==
    Cardinality({i \in 1..Len(calls[p]) :
                    /\ calls[p][i].op = "put"
                    /\ calls[p][i].key # MetaKey(req[p].fullKey)})

\* C16: chunk count: a string of L > MAX_CHUNK_SIZE bytes is split into
\* exactly ceil(L / MAX_CHUNK_SIZE) chunks, the last window of a whole
\* number of windows not being followed by an empty chunk, and the metadata
\* key a put writes records exactly the number of chunk keys it wrote.
C16_ChunkCount ==
    /\ LET L == ByteLength(cin) IN
       L > MAX_CHUNK_SIZE =>
           /\ Len(chunkValue(cin)) = CeilDiv(L, MAX_CHUNK_SIZE)
           /\ L % MAX_CHUNK_SIZE = 0 => Len(chunkValue(cin)) = L \div MAX_CHUNK_SIZE
    /\ \A p \in Procs :
          LET jsonString == JsonStringify(req[p].value)
              n == Len(chunkValue(jsonString))
          IN (/\ req[p].pc = "done" /\ req[p].op = "put"
              /\ req[p].resp = OkResponse /\ needsChunking(jsonString))
             => /\ n = CeilDiv(ByteLength(jsonString), MAX_CHUNK_SIZE)
                /\ ChunkWrites(p) = n
                /\ kv[MetaKey(req[p].fullKey)] = JsonStringify(ChunksObject(n))
                /\ ChunkIndices(kv, req[p].fullKey) = 0..(n - 1)

\* A put of the input string, whose serialized form is a whole number of
\* windows, over a three-chunk value.
C16_Witness ==
    \E p \in Procs :
        /\ req[p].pc = "done" /\ req[p].op = "put" /\ req[p].resp = OkResponse
        /\ req[p].value = Str(cin) /\ req[p].preN = 3
        /\ ByteLength(JsonStringify(req[p].value)) = 2 * MAX_CHUNK_SIZE
        /\ ChunkWrites(p) = 2 /\ MetaCount(kv, req[p].fullKey) = 2

\* The reads of chunk keys in the log of calls of a get, in issue order.
ChunkReads(p) ==
    SelectSeq(calls[p], LAMBDA c : /\ c.op = "get"
                                   /\ c.key # MetaKey(req[p].fullKey)
                                   /\ c.key # req[p].fullKey)

\* What get answers for the reconstructed text.
Reconstructed(text) ==
    IF JsonParse(text).ok THEN DataResponse(JsonParse(text).v)
    ELSE DataResponse(Str(text))

\* C17: reconstructValue reads the chunk keys in index order 0..numChunks-1
\* and returns their in-order concatenation when all are present; at the
\* first missing chunk it returns null: no further chunk key is read and no
\* partial concatenation is returned.
C17_ReconstructFailFast ==
    \A p \in Procs :
        (req[p].op = "get" /\ Len(ChunkReads(p)) > 0) =>
            LET fk == req[p].fullKey
                reads == ChunkReads(p)
                stored == chunkValue(JsonStringify(last[fk].value))
            IN /\ LastPut(fk, TRUE)
               /\ Len(reads) <= Len(stored)
               /\ \A k \in 1..Len(reads) : reads[k].key = ChunkKey(fk, k - 1)
               /\ \A k \in 1..(Len(reads) - 1) : reads[k].hit
               /\ req[p].pc = "get_chunk" =>
                     /\ reads[Len(reads)].hit
                     /\ req[p].acc = SubSeq(stored, 1, Len(reads))
               /\ req[p].pc = "get_plain" =>
                     ~reads[Len(reads)].hit /\ req[p].acc = <<>>
               /\ req[p].pc = "done" =>
                     IF reads[Len(reads)].hit
                     THEN /\ Len(reads) = Len(stored)
                          /\ req[p].resp = Reconstructed(Join(stored))
                     ELSE req[p].resp = DataResponse(Null)

\* A get of a three-chunk value whose chunk 1 was removed has ended after
\* reading chunk 0 and chunk 1 only.
C17_Witness ==
    \E p \in Procs :
        /\ req[p].op = "get" /\ req[p].pc = "done"
        /\ last[req[p].fullKey].value = DocThree
        /\ Len(ChunkReads(p)) = 2
        /\ ChunkReads(p)[1].hit /\ ~ChunkReads(p)[2].hit
        /\ Has(kv, ChunkKey(req[p].fullKey, 2))
        /\ req[p].resp = DataResponse(Null)

\* C18: serialization failure is atomic: a put whose document has no JSON
\* text answers an error and has issued no backing-store read, write or
\* delete, so the store is as it was when the put arrived.
C18_SerializationAtomic ==
    \A p \in Procs :
        (req[p].op = "put" /\ ~IsSerializable(req[p].value)) =>
            /\ calls[p] = <<>>
            /\ Has(kv, req[p].fullKey) <=> req[p].prePlain
            /\ MetaCount(kv, req[p].fullKey) = req[p].preN
            /\ req[p].pc = "done" => req[p].resp = ErrorResponse

\* The last successful put or delete the request made on key, 0 if none.
LastWrite(p, key) ==
    LET hits == {i \in 1..Len(calls[p]) :
                    /\ calls[p][i].key = key /\ calls[p][i].ok
                    /\ calls[p][i].op # "get"}
    IN IF hits = {} THEN 0 ELSE CHOOSE i \in hits : \A j \in hits : j <= i

\* C19: backing-store failures are surfaced: after a backing-store call of a
\* get, put or delete has failed, the request makes no other call (no retry,
\* no rollback: what it had written or deleted stays so) and answers
\* success = false, never a success carrying a default or empty value.
C19_FailureSurfaced ==
    \A p \in Procs : \A i \in 1..Len(calls[p]) :
        ~calls[p][i].ok =>
            /\ i = Len(calls[p])
            /\ req[p].pc = "done"
            /\ req[p].resp = ErrorResponse
            /\ ~req[p].resp.success /\ ~req[p].resp.hasData
            /\ \A j \in 1..(i - 1) :
                  (calls[p][j].ok /\ LastWrite(p, calls[p][j].key) = j) =>
                      (Has(kv, calls[p][j].key) <=> calls[p][j].op = "put")

\* A put of two chunks over a three-chunk value has failed at the metadata
\* write: the two new chunks stay, the old metadata stays.
C19_Witness ==
    \E p \in Procs :
        /\ req[p].pc = "done" /\ req[p].op = "put" /\ req[p].value = DocTwo
        /\ req[p].preN = 3 /\ req[p].resp = ErrorResponse
        /\ Len(calls[p]) = 7
        /\ CallAt(p, 7, "put", MetaKey(req[p].fullKey)) /\ ~calls[p][7].ok
        /\ ChunkIndices(kv, req[p].fullKey) = {0, 1}
        /\ MetaCount(kv, req[p].fullKey) = 3

\* Both writers have completed a put of the key, the reader's get, if any,
\* came after.
BothPut(fk) ==
    /\ AllQuiet
    /\ \A w \in Writers :
          /\ req[w].pc = "done" /\ req[w].op = "put" /\ req[w].fullKey = fk
          /\ req[w].resp = OkResponse

\* C20 as stated: when two puts of one key overlap in time, once both have
\* completed the key is in a single well-formed layout and a get returns the
\* document of one of the two puts.
C20_LastWriteWins ==
    \A fk \in FullKeys :
        (BothPut(fk) /\ \A w \in Writers : overlap[w]) =>
            /\ IsPlain(kv, fk) \/ IsChunked(kv, fk)
            /\ GetEnded(Reader, fk) =>
                  \E w \in Writers : req[Reader].resp = DataResponse(req[w].value)

\* What a get answers for the value as a completed put stored it.
StoredAnswer(value) ==
    IF needsChunking(JsonStringify(value))
    THEN Reconstructed(Join(chunkValue(JsonStringify(value))))
    ELSE DataResponse(value)

\* C20, amended: with a single writer per key at a time (no two requests on
\* the key ever in flight together), once two puts have completed the key is
\* in the layout of the put that completed last and a get answers what that
\* put stored.
C20_SingleWriterLastWins ==
    \A fk \in FullKeys :
        (BothPut(fk) /\ ~overlap["any"]) =>
            LET jsonString == JsonStringify(last[fk].value) IN
            /\ last[fk].op = "put" /\ last[fk].ok
            /\ \E w \in Writers : req[w].value = last[fk].value
            /\ IF needsChunking(jsonString)
               THEN /\ IsChunked(kv, fk)
                    /\ MetaCount(kv, fk) = Len(chunkValue(jsonString))
                    /\ \A j \in 1..Len(chunkValue(jsonString)) :
                          kv[ChunkKey(fk, j - 1)] = chunkValue(jsonString)[j]
               ELSE IsPlain(kv, fk) /\ kv[fk] = jsonString
            /\ GetEnded(Reader, fk) =>
                  req[Reader].resp = StoredAnswer(last[fk].value)

\* One writer has put three chunks, then the other two chunks, and the
\* reader has got the second document.
C20_Witness ==
    \E fk \in FullKeys :
        /\ BothPut(fk) /\ ~overlap["any"]
        /\ req["p1"].value = DocThree /\ req["p2"].value = DocTwo
        /\ last[fk].value = DocTwo /\ last[fk].preN = 3
        /\ GetEnded(Reader, fk) /\ req[Reader].resp = DataResponse(DocTwo)

\* C21: tab prefix transparency: a get, put or delete issued with key k and
\* a non-empty tab t calls the backing store on physical keys derived from
\* t-k only, and makes the calls and gives the answer that the same
\* operation with key t-k and no tab makes and gives from the same layout.
C21_TabTransparent ==
    \A p \in Procs :
        (req[p].op # "none" /\ req[p].tab # "") =>
            LET prefixed == req[p].tab \o "-" \o req[p].key IN
            /\ req[p].fullKey = prefixed
            /\ \A i \in 1..Len(calls[p]) : calls[p][i].key \in DerivedKeys(prefixed)
            /\ \A q \in Procs :
                  (/\ req[q].tab = "" /\ req[q].key = prefixed
                   /\ req[q].op = req[p].op /\ req[q].value = req[p].value
                   /\ req[q].prePlain = req[p].prePlain /\ req[q].preN = req[p].preN
                   /\ req[q].pc = req[p].pc /\ req[q].i = req[p].i)
                  => /\ calls[q] = calls[p]
                     /\ req[q].resp = req[p].resp
                     /\ req[q].fullKey = req[p].fullKey

\* A put of two chunks over three chunks was made with the tab and once
\* more, from the same layout, with the prefixed key.
C21_Witness ==
    /\ req["p1"].tab = "t" /\ req["p1"].key = "a" /\ req["p2"].key = "t-a"
    /\ \A p \in {"p1", "p2"} :
          /\ req[p].pc = "done" /\ req[p].op = "put" /\ req[p].value = DocTwo
          /\ req[p].preN = 3 /\ req[p].resp = OkResponse
    /\ calls["p1"] = calls["p2"] /\ Len(calls["p1"]) = 8
    /\ IsChunked(kv, "t-a")

\* C22: tab isolation: puts and deletes issued under one tab never change
\* what a get under a different tab returns, and a list under a tab never
\* returns a key written by an operation under a different tab. The readers'
\* tabs are never written under: their gets return null and their lists
\* nothing, as in the empty store.
C22_TabIsolation ==
    \A p \in Procs :
        (req[p].pc = "done" /\ req[p].tab \in ReaderTabs) =>
            /\ req[p].op = "get" => req[p].resp = DataResponse(Null)
            /\ req[p].op = "list" => req[p].resp = ListResponse({})

\* The physical keys the layout of a full key consists of in the store.
LayoutKeys(store, fullKey) ==
    IF IsChunked(store, fullKey)
    THEN {MetaKey(fullKey)} \cup
         {ChunkKey(fullKey, j) : j \in 0..(MetaCount(store, fullKey) - 1)}
    ELSE IF IsPlain(store, fullKey) THEN {fullKey} ELSE {}

\* C23: list is unfiltered: a list with tab t returns every physical key of
\* the store that starts with t-, every key when no tab is given, metadata
\* keys and chunk keys included, and it does not modify the store.
C23_ListUnfiltered ==
    [][\A p \in Procs :
          req[p].pc = "list_keys" =>
              /\ kv' = kv
              /\ req'[p].pc = "done"
              /\ req'[p].resp.success
              /\ req'[p].resp.keys =
                    IF req[p].tab = "t" THEN LayoutKeys(kv, "t-a")
                    ELSE LayoutKeys(kv, "t-a") \cup LayoutKeys(kv, "b")
              /\ \A k \in DOMAIN kv :
                    StartsWith(k, ListPrefix(req[p].tab)) => k \in req'[p].resp.keys]_vars

\* A list under tab t has returned the metadata key and the three chunk keys
\* of the entry under the tab, and not the plain key of the entry without.
C23_Witness ==
    \E p \in Procs :
        /\ req[p].pc = "done" /\ req[p].op = "list" /\ req[p].tab = "t"
        /\ IsChunked(kv, "t-a") /\ IsPlain(kv, "b")
        /\ req[p].resp = ListResponse({"t-a__chunks__", "t-a__chunk_0",
                                        "t-a__chunk_1", "t-a__chunk_2"})

\* The document a put found stored when it began, Null if none (the
\* documents of ConcDocs differ in layout or chunk count).
OldValue(put) ==
    IF put.preN > 0
    THEN CHOOSE d \in ConcDocs :
             /\ needsChunking(JsonStringify(d))
             /\ Len(chunkValue(JsonStringify(d))) = put.preN
    ELSE IF put.prePlain
    THEN CHOOSE d \in ConcDocs : ~needsChunking(JsonStringify(d))
    ELSE Null

\* The chunks a put of the value writes, none for a plain or absent value.
ChunksOf(value) ==
    IF value # Null /\ needsChunking(JsonStringify(value))
    THEN chunkValue(JsonStringify(value)) ELSE <<>>

\* What a get overlapping the put of new over old may answer.
OldNewOrNull(old, new) ==
    {DataResponse(Null), StoredAnswer(new)} \cup
    (IF old = Null THEN {} ELSE {StoredAnswer(old)})

Mixes(oldc, newc) ==
    LET at(j) == (IF j <= Len(oldc) THEN {oldc[j]} ELSE {}) \cup
                 (IF j <= Len(newc) THEN {newc[j]} ELSE {})
        all   == UNION {at(j) : j \in 1..(Len(oldc) + Len(newc))}
    IN UNION {{c \in [1..n -> all] : \A j \in 1..n : c[j] \in at(j)} :
                  n \in {Len(oldc), Len(newc)} \ {0}}

GetAfterFailedPut ==
    /\ GetEnded("p1", "a")
    /\ last["a"].op = "put" /\ ~last["a"].ok

\* C25 as stated: after a put that stopped at one of its backing-store
\* calls, get returns the previous value, the new value, or null.
C25_CrashConsistent ==
    GetAfterFailedPut =>
        req["p1"].resp \in OldNewOrNull(OldValue(last["a"]), last["a"].value)

\* C25, amended: after a put that stopped at one of its backing-store calls,
\* get returns the previous value, the new value, null, or, when the new
\* document has more chunks than the old metadata records and the put
\* stopped after it had written at least that many of them and before its
\* metadata write, the text of as many leading chunks of the new document
\* as the old metadata records; never a text holding a chunk of the old
\* document beside a chunk of the new one.
C25_CrashWeak ==
    GetAfterFailedPut =>
        LET put  == last["a"]
            newc == ChunksOf(put.value)
        IN \/ req["p1"].resp \in OldNewOrNull(OldValue(put), put.value)
           \/ /\ 0 < put.preN /\ put.preN < Len(newc)
              /\ ~Has(kv, "a")
              /\ MetaCount(kv, "a") = put.preN
              /\ \A j \in 0..(put.preN - 1) :
                    kv[ChunkKey("a", j)] = newc[j + 1]
              /\ req["p1"].resp = Reconstructed(Join(SubSeq(newc, 1, put.preN)))

\* The put of three chunks over two chunks stopped at its metadata write
\* and get has returned the first two chunks as raw text.
C25_Witness ==
    /\ GetAfterFailedPut
    /\ last["a"].value = DocThree /\ last["a"].preN = 2
    /\ req["p1"].resp =
          DataResponse(Str(Join(SubSeq(chunkValue(JsonStringify(DocThree)), 1, 2))))

\* C26: isolation between logical keys, keys spelled like the derived keys
\* of another included: a put or delete on one key leaves what get returns
\* for every other key unchanged, so a get returns what the last put on its
\* own key stored, null if the last operation on it was a delete or none.
C26_KeyIsolation ==
    \A k \in CollidingKeys :
        GetEnded("p1", k) =>
            req["p1"].resp =
                IF last[k].op = "put" THEN StoredAnswer(last[k].value)
                ELSE DataResponse(Null)

\* Every window of chunkValue's loop slices at least one byte.
ByteProgress ==
    cstage = "out" =>
        \A span \in {ChunkSpans(Utf8Encode(cin), 0)[k] :
                         k \in 1..Len(ChunkSpans(Utf8Encode(cin), 0))} :
            span[2] > span[1]

\* C27: chunkValue terminates on every input, every iteration of its loop
\* consumes at least one byte, and every chunk it returns is non-empty
\* (stated here for the inputs put hands to it, those that need chunking).
C27_NonEmptyChunks ==
    /\ ByteProgress
    /\ (cstage = "out" /\ needsChunking(cin)) =>
          /\ Len(cout) = Len(ChunkSpans(Utf8Encode(cin), 0))
          /\ \A k \in 1..Len(cout) : cout[k] # <<>>

\* A delete, or a put that takes the plain branch, in flight or ended.
Cleanup(p) ==
    \/ req[p].op = "delete"
    \/ req[p].op = "put" /\ ~needsChunking(JsonStringify(req[p].value))

\* C28: metadata outlives its chunks during cleanup: in delete and in the
\* plain branch of put the chunk keys 0..N-1 are deleted in index order, then
\* the metadata key, and only then is the plain key deleted or written; at
\* every intermediate step a chunk key that still exists is accompanied by
\* the metadata key.
C28_MetadataOutlivesChunks ==
    \A p \in Procs :
        Cleanup(p) =>
            LET fk == req[p].fullKey
                N  == req[p].preN
                c  == calls[p]
            IN /\ ~Quiet(p) =>
                    (ChunkIndices(kv, fk) # {} => Has(kv, MetaKey(fk)))
               /\ N > 0 =>
                    /\ Len(c) <= N + 3
                    /\ \A i \in 1..Len(c) :
                          IF i = 1 THEN CallAt(p, i, "get", MetaKey(fk))
                          ELSE IF i <= N + 1
                          THEN CallAt(p, i, "delete", ChunkKey(fk, i - 2))
                          ELSE IF i = N + 2
                          THEN CallAt(p, i, "delete", MetaKey(fk))
                          ELSE CallAt(p, i, IF req[p].op = "put" THEN "put"
                                            ELSE "delete", fk)
                    /\ req[p].pc = "done" => Len(c) = N + 3
                    /\ ~Quiet(p) =>
                          ChunkIndices(kv, fk) = {j \in 0..(N - 1) : j >= Len(c) - 1}

\* A delete of a 3-chunk entry has deleted chunks 0 and 1 and a plain put
\* over a 3-chunk entry has ended.
C28_Witness ==
    /\ \E p \in Procs :
          /\ req[p].op = "delete" /\ req[p].pc = "del_chunks" /\ req[p].preN = 3
          /\ ChunkIndices(kv, req[p].fullKey) = {2}
          /\ Has(kv, MetaKey(req[p].fullKey))
    /\ \E fk \in FullKeys : LastPut(fk, FALSE) /\ last[fk].preN = 3

\* A get is in flight.
Reading == \E p \in Procs : req[p].op = "get" /\ ~Quiet(p)

\* Every backing-store call the gets have issued is a get.
OnlyReads ==
    \A p \in Procs :
        req[p].op = "get" => \A i \in 1..Len(calls[p]) : calls[p][i].op = "get"

\* C29: get is read-only: in every store state, the inconsistent ones
\* included, a get issues no put or delete and leaves every physical key
\* unchanged, and two gets in a row with no write between them return the
\* same result.
C29_GetReadOnly ==
    [][/\ Reading => kv' = kv
       /\ OnlyReads'
       /\ (req'[Rereaders[1]].pc = "done" /\ req'[Rereaders[2]].pc = "done") =>
              req'[Rereaders[1]].resp = req'[Rereaders[2]].resp]_vars

\* Two gets in a row have returned the plain document from a store in
\* which a failed put has left the plain key beside a metadata key that
\* names a missing chunk.
C29_Witness ==
    /\ req[Rereaders[1]].pc = "done" /\ req[Rereaders[2]].pc = "done"
    /\ req[Rereaders[1]].resp = req[Rereaders[2]].resp
    /\ req[Rereaders[2]].resp = DataResponse(DocSmall)
    /\ Has(kv, "a") /\ Situation(kv, "a") = "integrity"
    /\ Len(calls[Rereaders[2]]) >= 3

\* The chunks 0..n-1 of fullKey as the store holds them, joined.
StoredJoin(store, fullKey, n) ==
    Join([j \in 1..n |-> store[ChunkKey(fullKey, j - 1)]])

\* The metadata key of fullKey names chunks that are all present and whose
\* concatenation is not valid JSON.
Unparseable(store, fullKey) ==
    LET n == MetaCount(store, fullKey) IN
    /\ n > 0
    /\ \A j \in 0..(n - 1) :
          Has(store, ChunkKey(fullKey, j)) /\ store[ChunkKey(fullKey, j)] # <<>>
    /\ ~JsonParse(StoredJoin(store, fullKey, n)).ok

\* C30: when the chunks of a chunked entry are all present but their
\* concatenation is not valid JSON, get answers success with the raw
\* reconstructed string as data and does not read the plain key.
C30_RawFallback ==
    \A p \in Procs :
        (GetEnded(p, "a") /\ Unparseable(kv, "a")) =>
            LET n == MetaCount(kv, "a") IN
            /\ req[p].resp = DataResponse(Str(StoredJoin(kv, "a", n)))
            /\ Len(calls[p]) = n + 1
            /\ CallAt(p, 1, "get", MetaKey("a"))
            /\ \A i \in 2..(n + 1) : CallAt(p, i, "get", ChunkKey("a", i - 2))

\* With the plain key holding a document beside metadata of 2 chunks over
\* the chunks of a 3-chunk document, a get has returned the first two
\* chunks as a string.
C30_Witness ==
    /\ GetEnded(Rereaders[1], "a")
    /\ Has(kv, "a") /\ kv["a"] = JsonStringify(DocSmall)
    /\ MetaCount(kv, "a") = 2
    /\ req[Rereaders[1]].resp =
          DataResponse(Str(Join(SubSeq(chunkValue(JsonStringify(DocThree)), 1, 2))))
    /\ req[Rereaders[1]].resp.success

=============================================================================
